---- MODULE Spec2Model ----
(***************************************************************************)
(* Model of watchtower/commits_.py: the commit/activity cache.             *)
(*   load_commits   (lines 11-60)   reads one cache file                    *)
(*   update_commits (lines 63-143)  fetch, merge with the cache, save       *)
(*                                                                         *)
(* A cache file is modelled by what pandas sees in it: absent, not JSON,   *)
(* or a table with or without a 'date' column.  A value of the 'date'      *)
(* column in memory is either the string the API returned (lines 125-128)  *)
(* or the zoned Timestamp load_commits builds (lines 48-50); both denote   *)
(* an instant t.  drop_duplicates compares the column's values, so a string *)
(* and a Timestamp of one instant are two values.  to_json followed by     *)
(* read_json/to_datetime is taken to give back each row's instant.         *)
(***************************************************************************)
EXTENDS Integers, Sequences, FiniteSets, TLC

\* ---------------------------------------------------------------- bounds
MaxDate  == 2      \* instants are 1..MaxDate
MaxFetch == 2      \* records returned by one get_frames call
MaxCalls == 1      \* calls made on the caches a run finds (Init)

\* ---------------------------------------------------------------- inputs
None == "None"
Users == {"acme"}
Projects == {None, "widget"}
Branches == {None, "dev"}
DataHomes == {None, "alt"}
PathUsers == {"acme", "octo"}
PathProjects == {None, "widget", "gadget"}
PathBranches == {None, "dev", "main"}
Dates == 1..MaxDate
Shas == {"a", "b"}
Procs == {1, 2}

VARIABLES files, dirs, ret, call, old_raw, ncalls,
          pc, praw, pold, pret, interleaved,
          pin, filepath, filename

seqvars  == <<ret, call, old_raw, ncalls>>
concvars == <<pc, praw, pold, pret, interleaved>>
pathvars == <<pin, filepath, filename>>
vars == <<files, dirs, ret, call, old_raw, ncalls,
          pc, praw, pold, pret, interleaved,
          pin, filepath, filename>>

\* ------------------------------------------------------- path resolution
\* get_data_home: the configured default unless an override is given.
get_data_home(data_home) ==
    IF data_home = None THEN "~/watchtower_data" ELSE data_home

\* load_commits, lines 38-45
LoadFilepath(user, project, data_home, branch) ==
    IF project = None
    THEN <<get_data_home(data_home), "users", user, "activity.json">>
    ELSE IF branch = None
    THEN <<get_data_home(data_home), "projects", user, project, "commits.json">>
    ELSE <<get_data_home(data_home), "projects", user, project,
           "branches", branch, "commits.json">>

\* a slip in the branch-scoped layout
UpdateFilenameNoBranchDir(user, project, data_home, branch) ==
    IF project = None
    THEN <<get_data_home(data_home), "users", user, "activity.json">>
    ELSE IF branch = None
    THEN <<get_data_home(data_home), "projects", user, project, "commits.json">>
    ELSE <<get_data_home(data_home), "projects", user, project,
           branch, "commits.json">>

\* update_commits, lines 96-112
UpdateFilename(user, project, data_home, branch) ==
    IF project = None
    THEN <<get_data_home(data_home), "users", user, "activity.json">>
    ELSE IF branch = None
    THEN <<get_data_home(data_home), "projects", user, project, "commits.json">>
    ELSE <<get_data_home(data_home), "projects", user, project,
           "branches", branch, "commits.json">>

\* os.path.dirname
dirname(path) == SubSeq(path, 1, Len(path) - 1)

\* os.makedirs: the directory and every missing parent; an existing
\* directory raises OSError, which lines 136-139 swallow.
makedirs(ds, dir) == ds \cup {SubSeq(dir, 1, k) : k \in 1..Len(dir)}

\* ------------------------------------------------------------ file model
Absent    == [kind |-> "absent",    hasDate |-> FALSE, rows |-> <<>>]
Malformed == [kind |-> "malformed", hasDate |-> FALSE, rows |-> <<>>]
Json(hasDate, rows) == [kind |-> "json", hasDate |-> hasDate, rows |-> rows]

\* the two in-memory forms of a 'date' value
ApiDate(t)   == [rep |-> "str", t |-> t]
Timestamp(t) == [rep |-> "ts",  t |-> t]

NoneResult == [kind |-> "None",     rows |-> <<>>]
KeyError   == [kind |-> "KeyError", rows |-> <<>>]
Frame(rows) == [kind |-> "frame", rows |-> rows]
NoCall     == [kind |-> "init",     rows |-> <<>>]

\* lines 48-50: the 'date' column re-hydrated as zoned Timestamps
to_datetime(rows) ==
    [i \in 1..Len(rows) |-> [date |-> Timestamp(rows[i].t), sha |-> rows[i].sha]]

\* load_commits, lines 46-58 (use_handler=False).
\*   read_json raises ValueError on a missing or non-JSON file;
\*   commits['date'] raises KeyError when the table has no such column;
\*   only ValueError is caught.
load_commits(fs, user, project, data_home, branch) ==
    LET c == fs[LoadFilepath(user, project, data_home, branch)] IN
    IF c.kind # "json" THEN NoneResult
    ELSE IF ~c.hasDate THEN KeyError
    ELSE IF Len(c.rows) = 0 THEN NoneResult
    ELSE Frame(to_datetime(c.rows))

\* lines 118-128: the fetched records as a table with a 'date' column
\* holding the API's strings
normalize(fetched) ==
    [i \in 1..Len(fetched) |-> [date |-> ApiDate(fetched[i].t), sha |-> fetched[i].sha]]

EmptyFetchNever(raw) == FALSE

\* line 120
EmptyFetch(raw) == Len(raw) = 0

concatOldFirst(raw, old) == old \o raw

\* line 134: pd.concat([raw, old_raw], ignore_index=True)
concat(raw, old) == raw \o old

\* line 135: drop_duplicates(subset=['date']) keeps the first row of each
\* 'date' value
drop_duplicates(df) ==
    LET F[i \in 0..Len(df)] ==
          IF i = 0 THEN <<>>
          ELSE IF \E j \in 1..(i-1) : df[j].date = df[i].date
               THEN F[i-1]
               ELSE Append(F[i-1], df[i])
    IN F[Len(df)]

MergeNoOld(raw, old) == raw

\* lines 133-135
Merge(raw, old) ==
    IF old.kind = "frame" THEN drop_duplicates(concat(raw, old.rows)) ELSE raw

\* line 142: the table serialised; a 'date' value of either form is written
\* out and read back as its instant
to_json(df) ==
    Json(TRUE, [i \in 1..Len(df) |-> [t |-> df[i].date.t, sha |-> df[i].sha]])

UpdateReturnRaw(fs, user, project, data_home, branch, raw) == Frame(raw)

\* line 143
UpdateReturn(fs, user, project, data_home, branch, raw) ==
    load_commits(fs, user, project, data_home, branch)

\* ------------------------------------------------------- derived notions
\* the instants of the records persisted in a cache file
Stamps(c) == IF c.kind = "json" /\ c.hasDate
             THEN {c.rows[i].t : i \in 1..Len(c.rows)} ELSE {}
FetchedStamps(f) == {f[i].t : i \in 1..Len(f)}
NoDupStamps(c) ==
    c.kind = "json" /\ c.hasDate =>
        \A i, j \in 1..Len(c.rows) : i # j => c.rows[i].t # c.rows[j].t

\* what get_frames may return: up to MaxFetch records, newest first as the
\* API lists them, repeated instants included; sha stands for the opaque
\* rest of a record, one value per fetch
FetchLists ==
    UNION {{[i \in 1..n |-> [t |-> d[i], sha |-> v]] :
              d \in {e \in [1..n -> Dates] : \A i \in 1..(n-1) : e[i] >= e[i+1]},
              v \in Shas}
           : n \in 0..MaxFetch}

SeqPaths == {LoadFilepath(u, p, None, b) : u \in Users, p \in Projects, b \in Branches}
            \cup {UpdateFilename(u, p, None, b) : u \in Users, p \in Projects, b \in Branches}

\* cache files as a run may find them: none, not JSON, an empty table with
\* or without a 'date' column, records without a 'date' field, and the
\* caches an earlier update wrote from records of distinct instants
InitContents ==
    {Absent, Malformed, Json(TRUE, <<>>), Json(FALSE, <<>>),
     Json(FALSE, <<[t |-> 0, sha |-> "a"]>>)}
    \cup {to_json(normalize(f)) :
            f \in {g \in FetchLists :
                     /\ Len(g) > 0
                     /\ g[1].sha = "a"
                     /\ \A i, j \in 1..Len(g) : i # j => g[i].t # g[j].t}}

DirsOf(fs) == UNION {makedirs({}, dirname(p)) : p \in {q \in DOMAIN fs : fs[q].kind # "absent"}}

NoPin == [user |-> None, project |-> None, data_home |-> None, branch |-> None]
ConcIdle == /\ pc = [p \in Procs |-> "idle"]
            /\ praw = [p \in Procs |-> <<>>]
            /\ pold = [p \in Procs |-> NoCall]
            /\ pret = [p \in Procs |-> NoCall]
            /\ interleaved = FALSE
PathIdle == /\ pin = NoPin
            /\ filepath = <<>>
            /\ filename = <<>>

\* ------------------------------------------------------ sequential runs
Init ==
    /\ \E q \in SeqPaths, c \in InitContents :
          files = [p \in SeqPaths |-> IF p = q THEN c ELSE Absent]
    /\ dirs = DirsOf(files)
    /\ ret = NoCall
    /\ call = [op |-> "init", user |-> None, project |-> None, branch |-> None,
               fetched |-> <<>>]
    /\ old_raw = NoCall
    /\ ncalls = 0
    /\ ConcIdle
    /\ PathIdle

LoadCommits(user, project, branch) ==
    /\ ncalls < MaxCalls
    /\ ncalls' = ncalls + 1
    /\ call' = [op |-> "load", user |-> user, project |-> project,
                branch |-> branch, fetched |-> <<>>]
    /\ ret' = load_commits(files, user, project, None, branch)
    /\ old_raw' = NoCall
    /\ UNCHANGED <<files, dirs, concvars, pathvars>>

UpdateCommits(user, project, branch, fetched) ==
    LET raw == normalize(fetched)
        old == load_commits(files, user, project, None, branch)
        fn  == UpdateFilename(user, project, None, branch)
        fs2 == [files EXCEPT ![fn] = to_json(Merge(raw, old))]
    IN
    /\ ncalls < MaxCalls
    /\ ncalls' = ncalls + 1
    /\ call' = [op |-> "update", user |-> user, project |-> project,
                branch |-> branch, fetched |-> fetched]
    /\ IF EmptyFetch(raw)
       THEN /\ ret' = NoneResult
            /\ old_raw' = NoCall
            /\ UNCHANGED <<files, dirs>>
       ELSE IF old.kind = "KeyError"
       THEN /\ ret' = KeyError
            /\ old_raw' = old
            /\ UNCHANGED <<files, dirs>>
       ELSE /\ old_raw' = old
            /\ dirs' = makedirs(dirs, dirname(fn))
            /\ files' = fs2
            /\ ret' = UpdateReturn(fs2, user, project, None, branch, Merge(raw, old))
    /\ UNCHANGED <<concvars, pathvars>>

Next ==
    \/ \E u \in Users, p \in Projects, b \in Branches : LoadCommits(u, p, b)
    \/ \E u \in Users, p \in Projects, b \in Branches, f \in FetchLists :
          UpdateCommits(u, p, b, f)

Spec == Init /\ [][Next]_vars

\* ------------------------------------------------ claims, sequential runs
CallPath == LoadFilepath(call.user, call.project, None, call.branch)
IsUpdateStep == ncalls' = ncalls + 1 /\ call'.op = "update"
\* the last call was an update that reached the save of lines 141-142
Wrote == call.op = "update" /\ Len(call.fetched) > 0 /\ old_raw.kind # "KeyError"
FileRows(rows) == [i \in 1..Len(rows) |-> [t |-> rows[i].date.t, sha |-> rows[i].sha]]
\* the first record with instant t in a sequence of [t, sha] records
FirstSha(rows, t) ==
    rows[CHOOSE i \in 1..Len(rows) :
            rows[i].t = t /\ \A j \in 1..(i-1) : rows[j].t # t].sha
RowStamps(rows) == {rows[i].t : i \in 1..Len(rows)}

\* C1: no persisted record set holds two records with the same timestamp,
\* whatever sequence of updates produced it, the first write included.
C1_NoDuplicateDates == \A p \in DOMAIN files : NoDupStamps(files[p])

\* C2: an update whose fetch returned zero records returns None and leaves
\* every cache file and every directory as it was.
C2_ZeroFetchNoMutation ==
    [][(IsUpdateStep /\ call'.fetched = <<>>)
         => (ret' = NoneResult /\ files' = files /\ dirs' = dirs)]_vars
C2_Witness ==
    /\ call.op = "update" /\ call.fetched = <<>> /\ ret = NoneResult
    /\ files[CallPath].kind = "json" /\ Len(files[CallPath].rows) > 0

\* C3: load_commits returns None, and does not raise, when the cache file
\* is missing or parses to zero records.
C3_MissingOrEmptyIsNone ==
    (call.op = "load"
       /\ (files[CallPath].kind = "absent"
            \/ (files[CallPath].kind = "json" /\ Len(files[CallPath].rows) = 0)))
    => ret = NoneResult

\* C4: load_commits returns None, and does not raise, when the cache file
\* is malformed or its records have no 'date' field.
C4_MalformedOrNoDateIsNone ==
    (call.op = "load"
       /\ (files[CallPath].kind = "malformed"
            \/ (files[CallPath].kind = "json" /\ ~files[CallPath].hasDate
                  /\ Len(files[CallPath].rows) > 0)))
    => ret = NoneResult

C7_SelfMergeIdempotent ==
    [][(IsUpdateStep
          /\ files[CallPath'].kind = "json" /\ files[CallPath'].hasDate
          /\ Len(call'.fetched) > 0
          /\ call'.fetched = files[CallPath'].rows)
         => (/\ Cardinality(Stamps(files'[CallPath'])) = Cardinality(Stamps(files[CallPath']))
             /\ Len(files'[CallPath'].rows) = Len(files[CallPath'].rows))]_vars

\* C8 as stated: when a fetched and a cached record share a timestamp, the
\* record kept for that timestamp (the first one in the persisted set) is
\* the cached entry.
C8_CachedSurvives ==
    (Wrote /\ old_raw.kind = "frame")
    => \A t \in FetchedStamps(call.fetched) \cap RowStamps(FileRows(old_raw.rows)) :
          FirstSha(files[CallPath].rows, t) = FirstSha(FileRows(old_raw.rows), t)

\* C8 amended: when a fetched and a cached record share a timestamp, the
\* fetched rows come first in concatenation order and the dedupe keeps the
\* first occurrence, so the first record with that timestamp in the
\* persisted set is the freshly fetched one.
C8_FetchedSurvives ==
    (Wrote /\ old_raw.kind = "frame")
    => \A t \in FetchedStamps(call.fetched) \cap RowStamps(FileRows(old_raw.rows)) :
          FirstSha(files[CallPath].rows, t) = FirstSha(call.fetched, t)
C8_Witness ==
    /\ Wrote /\ old_raw.kind = "frame"
    /\ \E t \in FetchedStamps(call.fetched) \cap RowStamps(FileRows(old_raw.rows)) :
          /\ FirstSha(call.fetched, t) # FirstSha(FileRows(old_raw.rows), t)
          /\ FirstSha(files[CallPath].rows, t) = FirstSha(call.fetched, t)

\* C10: under sequential use a persisted timestamp stays persisted after
\* every later update, after an update that fetched at least one record all
\* fetched timestamps are persisted for its key, and the update leaves the
\* persisted set of every other key as it was (keys with no project name
\* one record set, the owner's activity, whatever the branch).
C10_CacheOnlyGrows ==
    [][IsUpdateStep =>
         /\ \A p \in DOMAIN files : Stamps(files[p]) \subseteq Stamps(files'[p])
         /\ Len(call'.fetched) > 0
              => FetchedStamps(call'.fetched) \subseteq Stamps(files'[CallPath'])
         /\ \A u \in Users, p \in Projects, b \in Branches :
               LoadFilepath(u, p, None, b) # CallPath'
                 => files'[LoadFilepath(u, p, None, b)] = files[LoadFilepath(u, p, None, b)]
      ]_vars

\* ------------------------------------------------------ path resolution
SeqIdle == /\ ret = NoCall
           /\ call = [op |-> "init", user |-> None, project |-> None,
                      branch |-> None, fetched |-> <<>>]
           /\ old_raw = NoCall
           /\ ncalls = 0

InitPath ==
    /\ pin \in [user : PathUsers, project : PathProjects,
                data_home : DataHomes, branch : PathBranches]
    /\ filepath = <<>>
    /\ filename = <<>>
    /\ files = [p \in SeqPaths |-> Absent]
    /\ dirs = {}
    /\ SeqIdle
    /\ ConcIdle

\* load_commits resolving its path, lines 38-45
ResolveLoad ==
    /\ filepath = <<>>
    /\ filepath' = LoadFilepath(pin.user, pin.project, pin.data_home, pin.branch)
    /\ UNCHANGED <<files, dirs, seqvars, concvars, pin, filename>>

\* update_commits resolving its path, lines 96-112
ResolveUpdate ==
    /\ filename = <<>>
    /\ filename' = UpdateFilename(pin.user, pin.project, pin.data_home, pin.branch)
    /\ UNCHANGED <<files, dirs, seqvars, concvars, pin, filepath>>

NextPath == ResolveLoad \/ ResolveUpdate
SpecPath == InitPath /\ [][NextPath]_vars

\* C5: the cache path has one of three shapes, chosen only by which of
\* project and branch are absent, and update_commits writes to the path
\* load_commits reads from.
C5_PathShapes ==
    LET root == IF pin.data_home = None THEN "~/watchtower_data" ELSE pin.data_home
        shape == IF pin.project = None
                 THEN <<root, "users", pin.user, "activity.json">>
                 ELSE IF pin.branch = None
                 THEN <<root, "projects", pin.user, pin.project, "commits.json">>
                 ELSE <<root, "projects", pin.user, pin.project,
                        "branches", pin.branch, "commits.json">>
    IN /\ filepath # <<>> => filepath = shape
       /\ filename # <<>> => filename = shape
       /\ (filepath # <<>> /\ filename # <<>>) => filename = filepath
C5_Witness ==
    /\ pin.project # None /\ pin.branch # None /\ pin.data_home # None
    /\ filepath # <<>> /\ filename = filepath /\ Len(filename) = 7

\* ------------------------------------------------------ concurrent runs
\* two update_commits calls on one key, each a sequence of four steps with
\* nothing held between them
ConcUser == "acme"
ConcProject == "widget"
ConcBranch == None
ConcPath == UpdateFilename(ConcUser, ConcProject, None, ConcBranch)
Other(p) == CHOOSE q \in Procs : q # p
Busy(p) == pc[p] \notin {"idle", "done"}

InitConc ==
    /\ \E c \in InitContents :
          files = [p \in SeqPaths |-> IF p = ConcPath THEN c ELSE Absent]
    /\ dirs = DirsOf(files)
    /\ SeqIdle
    /\ ConcIdle
    /\ PathIdle

\* lines 114-128
Fetch(p, fetched) ==
    /\ pc[p] = "idle"
    /\ praw' = [praw EXCEPT ![p] = normalize(fetched)]
    /\ IF EmptyFetch(normalize(fetched))
       THEN /\ pc' = [pc EXCEPT ![p] = "done"]
            /\ pret' = [pret EXCEPT ![p] = NoneResult]
       ELSE /\ pc' = [pc EXCEPT ![p] = "fetched"]
            /\ pret' = pret
    /\ interleaved' = (interleaved \/ Busy(Other(p)))
    /\ UNCHANGED <<files, dirs, pold, seqvars, pathvars>>

\* lines 131-132
Load(p) ==
    /\ pc[p] = "fetched"
    /\ LET old == load_commits(files, ConcUser, ConcProject, None, ConcBranch) IN
         /\ pold' = [pold EXCEPT ![p] = old]
         /\ IF old.kind = "KeyError"
            THEN /\ pc' = [pc EXCEPT ![p] = "done"]
                 /\ pret' = [pret EXCEPT ![p] = KeyError]
            ELSE /\ pc' = [pc EXCEPT ![p] = "loaded"]
                 /\ pret' = pret
    /\ interleaved' = (interleaved \/ Busy(Other(p)))
    /\ UNCHANGED <<files, dirs, praw, seqvars, pathvars>>

\* lines 133-142
Save(p) ==
    /\ pc[p] = "loaded"
    /\ dirs' = makedirs(dirs, dirname(ConcPath))
    /\ files' = [files EXCEPT ![ConcPath] = to_json(Merge(praw[p], pold[p]))]
    /\ pc' = [pc EXCEPT ![p] = "saved"]
    /\ interleaved' = (interleaved \/ Busy(Other(p)))
    /\ UNCHANGED <<praw, pold, pret, seqvars, pathvars>>

\* line 143
Reload(p) ==
    /\ pc[p] = "saved"
    /\ pret' = [pret EXCEPT ![p] =
                  UpdateReturn(files, ConcUser, ConcProject, None, ConcBranch,
                               Merge(praw[p], pold[p]))]
    /\ pc' = [pc EXCEPT ![p] = "done"]
    /\ interleaved' = (interleaved \/ Busy(Other(p)))
    /\ UNCHANGED <<files, dirs, praw, pold, seqvars, pathvars>>

NextConc ==
    \/ \E p \in Procs, f \in FetchLists : Fetch(p, f)
    \/ \E p \in Procs : Load(p)
    \/ \E p \in Procs : Save(p)
    \/ \E p \in Procs : Reload(p)
SpecConc == InitConc /\ [][NextConc]_vars

RawStamps(raw) == {raw[i].date.t : i \in 1..Len(raw)}
BothSaved == \A p \in Procs : pc[p] = "done" /\ pret[p].kind = "frame"

\* C9: two updates of one key that ran one after the other leave the
\* timestamps fetched by both in the persisted set; with their steps
\* interleaved a persisted set lacking a timestamp one of them fetched is
\* reachable (C9_LostUpdate).
C9_SequentialKeepsBoth ==
    (BothSaved /\ ~interleaved)
    => \A p \in Procs : RawStamps(praw[p]) \subseteq Stamps(files[ConcPath])
C9_LostUpdate ==
    /\ BothSaved /\ interleaved
    /\ \A p \in Procs : pold[p] = pold[Other(p)]
    /\ \E p \in Procs : ~(RawStamps(praw[p]) \subseteq Stamps(files[ConcPath]))
====
